---- MODULE Spec2Model ----
(***************************************************************************)
(* OpenTSDB datasource: query translation and result reconciliation.       *)
(*   TypeScript front end  public/app/plugins/datasource/opentsdb/         *)
(*                         datasource.ts  (OpenTsDatasource)               *)
(*   Go executor           unnamed/part_000 (OpenTsdbExecutor)             *)
(* Strings that the code concatenates, splits or parses are sequences of   *)
(* one-character strings; names that are only compared are TLA+ strings.   *)
(***************************************************************************)
EXTENDS Integers, Sequences, FiniteSets, TLC

VARIABLES impl, tsdbVersion, targets, interval, rangeRaw, pc,
          queries, gExpressions, groupByTags, origin,
          sent, inflight, received, arrival, responses, result, tagKeys,
          metricQueries, gexpQueries, queryResult,
          suggestion, aggregatorsPromise, filterTypesPromise, lookups, returned

\* the auto-complete side of the datasource: the last suggestTagKeys answer, the
\* two memoised promises, the discovery requests issued and the promise each
\* getAggregators / getFilterTypes call returned
discovery == <<suggestion, aggregatorsPromise, filterTypesPromise, lookups, returned>>

\* the state of one panel evaluation
evaluation == <<impl, tsdbVersion, targets, interval, rangeRaw, pc,
                queries, gExpressions, groupByTags, origin,
                sent, inflight, received, arrival, responses, result, tagKeys,
                metricQueries, gexpQueries, queryResult>>

vars == <<impl, tsdbVersion, targets, interval, rangeRaw, pc,
          queries, gExpressions, groupByTags, origin,
          sent, inflight, received, arrival, responses, result, tagKeys,
          metricQueries, gexpQueries, queryResult,
          suggestion, aggregatorsPromise, filterTypesPromise, lookups, returned>>

---------------------------------------------------------------------------
(* Bounds of the model *)
MaxTargets == 3
MaxSeries == 2
MaxRows == 2
MaxCalls == 3

---------------------------------------------------------------------------
(* JavaScript / JSON values *)
JsUndefined == [kind |-> "undefined"]
JsNull == [kind |-> "null"]
JsNaN == [kind |-> "NaN"]
JsNum(n) == [kind |-> "number", n |-> n]
JsStr(s) == [kind |-> "string", s |-> s]

Truthy(v) ==
  CASE v.kind = "undefined" -> FALSE
    [] v.kind = "null" -> FALSE
    [] v.kind = "NaN" -> FALSE
    [] v.kind = "number" -> v.n # 0
    [] v.kind = "string" -> Len(v.s) > 0
    [] OTHER -> TRUE

\* obj[k] of a JavaScript object: undefined when the property is missing
Prop(obj, k) == IF k \in DOMAIN obj THEN obj[k] ELSE JsUndefined

\* v === 0
IsZero(v) == v.kind = "number" /\ v.n = 0

\* v.length
JsLength(v) == IF v.kind = "string" THEN JsNum(Len(v.s)) ELSE JsUndefined

NoFields == [k \in {} |-> JsUndefined]

Digits == <<"0", "1", "2", "3", "4", "5", "6", "7", "8", "9">>
IsDigit(c) == \E d \in 1..10 : Digits[d] = c
DigitVal(c) == (CHOOSE d \in 1..10 : Digits[d] = c) - 1

RECURSIVE DigitsVal(_)
DigitsVal(s) ==
  IF s = <<>> THEN 0 ELSE 10 * DigitsVal(SubSeq(s, 1, Len(s) - 1)) + DigitVal(s[Len(s)])

\* the longest prefix of s made of digits
RECURSIVE LeadingDigits(_)
LeadingDigits(s) ==
  IF s = <<>> \/ ~IsDigit(Head(s)) THEN <<>> ELSE <<Head(s)>> \o LeadingDigits(Tail(s))

\* parseInt(s, 10) on an unsigned string
parseInt(s) ==
  IF LeadingDigits(s) = <<>> THEN JsNaN ELSE JsNum(DigitsVal(LeadingDigits(s)))

RECURSIVE IntToStr(_)
IntToStr(n) ==
  IF n < 10 THEN <<Digits[n + 1]>> ELSE IntToStr(n \div 10) \o <<Digits[(n % 10) + 1]>>

RECURSIVE Split(_, _)
Split(s, sep) ==
  IF \E i \in 1..Len(s) : s[i] = sep
  THEN LET i == CHOOSE j \in 1..Len(s) : s[j] = sep /\ \A h \in 1..(j - 1) : s[h] # sep
       IN <<SubSeq(s, 1, i - 1)>> \o Split(SubSeq(s, i + 1, Len(s)), sep)
  ELSE <<s>>

\* interval.match(/\.[0-9]+s/)
MatchFracSeconds(s) ==
  \E i \in 1..Len(s) : \E j \in (i + 2)..Len(s) :
    /\ s[i] = "."
    /\ s[j] = "s"
    /\ \A h \in (i + 1)..(j - 1) : IsDigit(s[h])

\* parseFloat(s) * 1000 for a decimal with at most three fractional digits
ParseFloatTimes1000(s) ==
  LET ip == LeadingDigits(s)
      rest == SubSeq(s, Len(ip) + 1, Len(s))
      fp == IF rest # <<>> /\ Head(rest) = "." THEN LeadingDigits(Tail(rest)) ELSE <<>>
      scale == CASE Len(fp) = 0 -> 0
                 [] Len(fp) = 1 -> 100
                 [] Len(fp) = 2 -> 10
                 [] OTHER -> 1
  IN DigitsVal(ip) * 1000 + DigitsVal(SubSeq(fp, 1, IF Len(fp) < 3 THEN Len(fp) ELSE 3)) * scale

\* templateSrv.replace on a text without template variables
TemplateReplace(s) == s

\* array[i] with a 0-based index
ArrayGet(arr, i) == IF i \in 0..(Len(arr) - 1) THEN arr[i + 1] ELSE JsUndefined

RECURSIVE Flatten(_)
Flatten(ss) == IF ss = <<>> THEN <<>> ELSE Head(ss) \o Flatten(Tail(ss))

---------------------------------------------------------------------------
(* Texts used by the inputs *)
S_1m == <<"1", "m">>
S_30s == <<"3", "0", "s">>
S_frac == <<"0", ".", "5", "s">>
S_avg == <<"a", "v", "g">>
S_none == <<"n", "o", "n", "e">>
S_zero == <<"z", "e", "r", "o">>
S_ab == <<"a", "|", "b">>
S_star == <<"*">>
S_b == <<"b">>
S_c == <<"c">>
S_5 == <<"5">>

NoTags == [k \in {} |-> <<>>]
HostTags(v) == [k \in {"host"} |-> v]
HostFilter == [tagk |-> "host", filter |-> S_star, type |-> "wildcard", groupBy |-> TRUE]

---------------------------------------------------------------------------
(* TypeScript: Target Model Normalizer *)

convertGExpToQuery(target) ==
  IF target.hide = TRUE THEN JsNull ELSE JsStr(target.gexp)

rateOptionsTs(target, version) ==
  LET ro0 == [counter |-> target.isCounter]
      ro1 == IF Truthy(target.counterMax) /\ Truthy(JsLength(target.counterMax))
             THEN ro0 @@ [counterMax |-> parseInt(target.counterMax.s)]
             ELSE ro0
      ro2 == IF Truthy(target.counterResetValue) /\ Truthy(JsLength(target.counterResetValue))
             THEN ro1 @@ [resetValue |-> parseInt(target.counterResetValue.s)]
             ELSE ro1
  IN IF version >= 2
     THEN ro2 @@ [dropResets |->
            /\ ~Truthy(Prop(ro2, "counterMax"))
            /\ (~Truthy(Prop(ro2, "ResetValue")) \/ IsZero(Prop(ro2, "ResetValue")))]
     ELSE ro2

downsampleTs(target, options) ==
  LET raw == TemplateReplace(IF target.downsampleInterval # <<>>
                             THEN target.downsampleInterval
                             ELSE options.interval)
      intv == IF MatchFracSeconds(raw)
              THEN IntToStr(ParseFloatTimes1000(raw)) \o <<"m", "s">>
              ELSE raw
      ds == intv \o <<"-">> \o target.downsampleAggregator
  IN IF target.downsampleFillPolicy # <<>> /\ target.downsampleFillPolicy # S_none
     THEN ds \o <<"-">> \o target.downsampleFillPolicy
     ELSE ds

convertTargetToQuery(target, options, version) ==
  IF target.metric = "" \/ target.hide
  THEN JsNull
  ELSE LET base == [kind |-> "object",
                    metric |-> TemplateReplace(target.metric),
                    aggregator |-> IF target.aggregator # ""
                                   THEN TemplateReplace(target.aggregator)
                                   ELSE "avg"]
           rate == IF target.shouldComputeRate
                   THEN [rate |-> TRUE, rateOptions |-> rateOptionsTs(target, version)]
                   ELSE NoFields
           ds == IF ~target.disableDownsampling
                 THEN [downsample |-> downsampleTs(target, options)]
                 ELSE NoFields
           tf == IF Len(target.filters) > 0
                 THEN [filters |-> [i \in 1..Len(target.filters) |->
                         [target.filters[i] EXCEPT !.filter = TemplateReplace(@)]]]
                 ELSE [tags |-> [k \in DOMAIN target.tags |-> TemplateReplace(target.tags[k])]]
           et == IF target.explicitTags THEN [explicitTags |-> TRUE] ELSE NoFields
       IN base @@ rate @@ ds @@ tf @@ et

---------------------------------------------------------------------------
(* Go: buildMetric / buildGexp *)

\* simplejson CheckGet: is the key present
CheckGet(v) == v.kind # "undefined"
\* simplejson MustFloat64 of a numeric value
MustFloat64(v) == IF v.kind = "number" THEN v.n ELSE 0

\* interval-aggregator, with "1m" for a blank interval
goDownsampleBase(model) ==
  LET intv == IF model.downsampleInterval = <<>> THEN S_1m ELSE model.downsampleInterval
  IN intv \o <<"-">> \o model.downsampleAggregator

goDownsample(model) ==
  LET ds == goDownsampleBase(model)
  IN IF model.downsampleFillPolicy # S_none
     THEN ds \o <<"-">> \o model.downsampleFillPolicy
     ELSE ds

\* url.QueryEscape: letters, digits, '-', '_', '.', '~' are kept, a space becomes
\* '+', any other character its percent-encoding
QueryEscapeChar(c) ==
  CASE c = " " -> <<"+">>
    [] c = "|" -> <<"%", "7", "C">>
    [] c = "*" -> <<"%", "2", "A">>
    [] c = "(" -> <<"%", "2", "8">>
    [] c = ")" -> <<"%", "2", "9">>
    [] OTHER -> <<c>>

QueryEscape(s) == Flatten([i \in 1..Len(s) |-> QueryEscapeChar(s[i])])

buildMetric(model) ==
  LET base == [metric |-> model.metric, aggregator |-> model.aggregator]
      ds == IF ~model.disableDownsampling
            THEN [downsample |-> goDownsample(model)]
            ELSE NoFields
      counterMaxCheck == CheckGet(model.counterMax)
      resetValueCheck == CheckGet(model.counterResetValue)
      ro0 == [counter |-> model.isCounter]
      ro1 == IF counterMaxCheck
             THEN ro0 @@ [counterMax |-> MustFloat64(model.counterMax)]
             ELSE ro0
      ro2 == IF resetValueCheck
             THEN ro1 @@ [resetValue |-> MustFloat64(model.counterResetValue)]
             ELSE ro1
      ro3 == IF ~counterMaxCheck /\ (~resetValueCheck \/ MustFloat64(model.counterResetValue) = 0)
             THEN ro2 @@ [dropResets |-> TRUE]
             ELSE ro2
      rate == IF model.shouldComputeRate
              THEN [rate |-> TRUE, rateOptions |-> ro3]
              ELSE NoFields
      tg == IF DOMAIN model.tags # {} THEN [tags |-> model.tags] ELSE NoFields
      fl == IF Len(model.filters) > 0 THEN [filters |-> model.filters] ELSE NoFields
  IN base @@ ds @@ rate @@ tg @@ fl

buildGexp(model, start, end) ==
  LET qs0 == <<"start=">> \o IntToStr(start) \o <<"&end=">> \o IntToStr(end)
      downsample == goDownsampleBase(model)
      qs1 == IF ~model.disableDownsampling
             THEN IF model.downsampleFillPolicy # S_none
                  THEN qs0 \o <<"&downsampleFillPolicy=">> \o QueryEscape(downsample)
                         \o <<"-">> \o QueryEscape(model.downsampleFillPolicy)
                  ELSE qs0 \o <<"&downsampleFillPolicy=">> \o QueryEscape(downsample)
             ELSE qs0
  IN qs1 \o <<"&exp=">> \o QueryEscape(<<model.gexp>>)

---------------------------------------------------------------------------
(* Inputs: the panel's targets *)

DefaultTarget ==
  [kind |-> "object", refId |-> 0, queryType |-> "", metric |-> "", gexp |-> "",
   hide |-> FALSE, alias |-> "", gexpAlias |-> "", aggregator |-> "sum",
   tags |-> NoTags, filters |-> <<>>,
   shouldComputeRate |-> FALSE, isCounter |-> FALSE,
   counterMax |-> JsUndefined, counterResetValue |-> JsUndefined,
   disableDownsampling |-> TRUE, downsampleInterval |-> <<>>,
   downsampleAggregator |-> S_avg, downsampleFillPolicy |-> S_none,
   explicitTags |-> FALSE]

\* targets of a panel evaluation: visible, hidden and empty ones of both kinds
PipelineTargets ==
  { [DefaultTarget EXCEPT !.queryType = "metric", !.metric = "cpu", !.tags = HostTags(S_ab)],
    [DefaultTarget EXCEPT !.metric = "cpu", !.tags = HostTags(S_star)],
    [DefaultTarget EXCEPT !.queryType = "metric", !.metric = "cpu", !.hide = TRUE],
    [DefaultTarget EXCEPT !.queryType = "metric"] }
  \cup
  { [DefaultTarget EXCEPT !.queryType = "gexp", !.gexp = g, !.hide = h]
      : <<g, h>> \in {<<"g", FALSE>>, <<"g", TRUE>>, <<"", FALSE>>} }

\* a target of a query type the executor does not know
OtherTarget == [DefaultTarget EXCEPT !.queryType = "other", !.metric = "cpu"]

\* the counter options as the front end stores them (the text of an input field,
\* possibly cleared) and as numeric JSON
CounterValues(i) ==
  IF i = "ts" THEN {JsUndefined, JsStr(<<>>), JsStr(S_5)}
  ELSE {JsUndefined, JsNum(0), JsNum(5)}

\* one metric target with every combination of the builder's options
BuildTargets(i) ==
  { [DefaultTarget EXCEPT !.queryType = "metric", !.metric = "cpu",
       !.shouldComputeRate = r[1], !.counterMax = r[2], !.counterResetValue = r[3],
       !.disableDownsampling = d[1], !.downsampleInterval = d[2],
       !.downsampleFillPolicy = d[3],
       !.tags = tf[1], !.filters = tf[2]]
      : r \in ({<<FALSE, JsUndefined, JsUndefined>>}
                 \cup ({TRUE} \X CounterValues(i) \X CounterValues(i))),
        d \in BOOLEAN \X {<<>>, S_frac} \X {<<>>, S_none, S_zero},
        tf \in {NoTags, HostTags(S_ab)} \X {<<>>, <<HostFilter>>} }

\* one gexp target with the downsampling options of the builder
GexpBuildTargets ==
  { [DefaultTarget EXCEPT !.queryType = "gexp", !.gexp = "g",
       !.disableDownsampling = FALSE, !.downsampleInterval = d[1],
       !.downsampleFillPolicy = d[2]]
      : d \in {<<>>, S_30s} \X {<<>>, S_none, S_zero} }

WithRefIds(ts) == [i \in 1..Len(ts) |-> [ts[i] EXCEPT !.refId = i - 1]]

SeqsUpTo(S, n) == UNION {[1..m -> S] : m \in 0..n}

DateNow == [kind |-> "string", s |-> <<"now">>]
DateAt(ms) == [kind |-> "date", ms |-> ms]

\* instanceSettings.jsonData.tsdbResolution || 1
tsdbResolution == 1

\* the DataQueryRequest handed to query()
Options == [kind |-> "request", targets |-> targets, interval |-> interval,
            rangeRaw |-> rangeRaw]

\* a JavaScript array
Arr(items) == [kind |-> "array", items |-> items]

NoRequests == [k \in {} |-> JsUndefined]

Pending == [state |-> "pending", value |-> JsUndefined]
Fulfilled(v) == [state |-> "fulfilled", value |-> v]
Rejected == [state |-> "rejected", value |-> JsUndefined]

\* the state of one evaluation before query() runs
InitEvaluation ==
  /\ pc = "start"
  /\ queries = <<>>
  /\ gExpressions = <<>>
  /\ groupByTags = {}
  /\ origin = [metric |-> <<>>, gexp |-> <<>>]
  /\ sent = <<>>
  /\ inflight = {}
  /\ received = NoRequests
  /\ arrival = <<>>
  /\ responses = <<>>
  /\ result = [state |-> "none", data |-> <<>>]
  /\ metricQueries = <<>>
  /\ gexpQueries = <<>>
  /\ queryResult = [Series |-> <<>>]
  /\ suggestion = JsUndefined
  /\ aggregatorsPromise = JsNull
  /\ filterTypesPromise = JsNull
  /\ lookups = <<>>
  /\ returned = <<>>

\* a datasource instance that has not answered any query yet: this.tagKeys = {}
InitCommon ==
  /\ InitEvaluation
  /\ tagKeys = [m \in {} |-> <<>>]

InitPipeline ==
  /\ impl \in {"ts", "go"}
  /\ tsdbVersion \in (IF impl = "ts" THEN {2, 3} ELSE {1})
  /\ \E ts \in SeqsUpTo(PipelineTargets, MaxTargets) : targets = WithRefIds(ts)
  /\ interval = S_1m
  /\ rangeRaw = [from |-> DateAt(100), to |-> DateAt(200)]
  /\ InitCommon

InitBuild ==
  /\ impl \in {"ts", "go"}
  /\ tsdbVersion \in (IF impl = "ts" THEN {1, 2, 3} ELSE {1})
  /\ \E t \in BuildTargets(impl) \cup GexpBuildTargets \cup {OtherTarget} :
       targets = WithRefIds(<<t>>)
  /\ interval \in {S_1m, S_30s}
  /\ rangeRaw = [from |-> DateAt(100), to |-> DateAt(200)]
  /\ InitCommon

\* a panel over a relative window ("last hour"): the end of the range is 'now'
InitWindow ==
  /\ impl \in {"ts", "go"}
  /\ tsdbVersion = (IF impl = "ts" THEN 2 ELSE 1)
  /\ targets = WithRefIds(<<[DefaultTarget EXCEPT !.queryType = "metric", !.metric = "cpu",
                                                  !.tags = HostTags(S_ab)],
                            [DefaultTarget EXCEPT !.queryType = "gexp", !.gexp = "g"]>>)
  /\ interval = S_1m
  /\ rangeRaw = [from |-> DateAt(100), to |-> DateNow]
  /\ InitCommon

Init == InitPipeline \/ InitBuild \/ InitWindow

\* panels whose answers are reconciled: metric targets, and gexp targets of which
\* one may be hidden
ReconcilePanels ==
  LET cpu == [DefaultTarget EXCEPT !.queryType = "metric", !.metric = "cpu",
                                   !.tags = HostTags(S_star)]
      mem == [DefaultTarget EXCEPT !.queryType = "metric", !.metric = "mem",
                                   !.tags = HostTags(S_star)]
      g == [DefaultTarget EXCEPT !.queryType = "gexp", !.gexp = "g"]
      h == [DefaultTarget EXCEPT !.queryType = "gexp", !.gexp = "g", !.hide = TRUE]
  IN {<<cpu, mem>>, <<cpu, g>>, <<g, g>>, <<h, g>>}

\* this.tagKeys as earlier evaluations of the same instance may have left it
KnownTagKeys ==
  {[m \in {} |-> <<>>], [m \in {"cpu"} |-> <<"colo">>], [m \in {"disk"} |-> <<"host">>]}

\* a front-end instance, possibly used before, evaluating one of the panels
InitReconcile ==
  /\ impl = "ts"
  /\ tsdbVersion = 2
  /\ \E ts \in ReconcilePanels : targets = WithRefIds(ts)
  /\ interval = S_1m
  /\ rangeRaw = [from |-> DateAt(100), to |-> DateAt(200)]
  /\ InitEvaluation
  /\ tagKeys \in KnownTagKeys

---------------------------------------------------------------------------
(* TypeScript: query(), the synchronous part *)

convertToTSDBTime(date) ==
  IF date.kind = "string" /\ date.s = <<"now">> THEN JsNull ELSE JsNum(date.ms)

\* the loop over options.targets: a missing queryType becomes 'metric'
defaultQueryType(t) ==
  IF t.metric = "" /\ t.gexp = "" THEN t
  ELSE IF t.queryType = "" THEN [t EXCEPT !.queryType = "metric"] ELSE t

considered(t) == ~(t.metric = "" /\ t.gexp = "")

\* qs / gExps with, next to each entry, the refId of the target it was built from
builtTs(ts, kind, options, version) ==
  LET pushed == SelectSeq(ts, LAMBDA t : considered(t) /\ t.queryType = kind)
  IN [i \in 1..Len(pushed) |->
        [q |-> IF kind = "metric"
               THEN convertTargetToQuery(pushed[i], options, version)
               ELSE convertGExpToQuery(pushed[i]),
         refId |-> pushed[i].refId]]

compacted(entries) == SelectSeq(entries, LAMBDA e : Truthy(e.q))

groupByTagsOf(qs) ==
  UNION { IF "filters" \in DOMAIN qs[i] /\ Len(qs[i].filters) > 0
          THEN {qs[i].filters[j].tagk : j \in 1..Len(qs[i].filters)}
          ELSE DOMAIN Prop(qs[i], "tags")
          : i \in 1..Len(qs) }

performTimeSeriesQuery(qs, start, end, version) ==
  [method |-> "POST", url |-> <<"/api/query">>,
   data |-> [start |-> start, queries |-> qs,
             msResolution |-> (tsdbResolution = 2), globalAnnotations |-> TRUE]
            @@ (IF version = 3 THEN [showQuery |-> TRUE] ELSE NoFields)
            @@ (IF Truthy(end) THEN [end |-> end] ELSE NoFields)]

performGExpressionQuery(idx, gExp, start, end) ==
  LET urlParams == <<"?start=">> \o IntToStr(start.n) \o <<"&exp=", gExp, "&gexpIndex=">>
                     \o IntToStr(idx)
  IN [method |-> "GET", url |-> <<"/api/query/gexp">> \o TemplateReplace(urlParams)]

\* a result stored in the order of arrival instead of the order of the requests
promiseSlotByArrival(gexpIndex) ==
  Cardinality({i \in 1..Len(arrival) : arrival[i] # 0}) + 2

\* position of a promise in tsdbQueryPromises = [queriesPromise].concat(gexpPromises)
promiseSlot(gexpIndex) == gexpIndex + 2

Query ==
  /\ impl = "ts"
  /\ pc = "start"
  /\ LET start == convertToTSDBTime(rangeRaw.from)
         end == convertToTSDBTime(rangeRaw.to)
         ts == [i \in 1..Len(targets) |-> defaultQueryType(targets[i])]
         opts == [Options EXCEPT !.targets = ts]
         qsB == compacted(builtTs(ts, "metric", opts, tsdbVersion))
         gsB == compacted(builtTs(ts, "gexp", opts, tsdbVersion))
         qs == [i \in 1..Len(qsB) |-> qsB[i].q]
         gs == [i \in 1..Len(gsB) |-> gsB[i].q.s]
     IN /\ targets' = ts
        /\ queries' = qs
        /\ gExpressions' = gs
        /\ origin' = [metric |-> [i \in 1..Len(qsB) |-> qsB[i].refId],
                      gexp |-> [i \in 1..Len(gsB) |-> gsB[i].refId]]
        /\ IF qs = <<>> /\ gs = <<>>
           THEN /\ result' = [state |-> "resolved", data |-> <<>>]
                /\ pc' = "done"
                /\ UNCHANGED <<groupByTags, sent, inflight, responses>>
           ELSE /\ groupByTags' = groupByTagsOf(qs)
                /\ sent' = (IF Len(qs) > 0
                            THEN <<performTimeSeriesQuery(qs, start, end, tsdbVersion)>>
                            ELSE <<>>)
                           \o [k \in 1..Len(gs) |->
                                 performGExpressionQuery(k - 1, gs[k], start, end)]
                /\ inflight' = (IF Len(qs) > 0 THEN {0} ELSE {}) \cup 1..Len(gs)
                /\ responses' = [s \in 1..(Len(gs) + 1) |->
                                   IF s = 1 /\ Len(qs) = 0 THEN Fulfilled(JsUndefined)
                                   ELSE Pending]
                /\ result' = [state |-> "pending", data |-> <<>>]
                /\ pc' = "wait"
  /\ UNCHANGED <<impl, tsdbVersion, interval, rangeRaw, received, arrival, tagKeys,
                 metricQueries, gexpQueries, queryResult,
                 suggestion, aggregatorsPromise, filterTypesPromise, lookups, returned>>

---------------------------------------------------------------------------
(* What the backend can answer *)

\* rows of a batch answer without showQuery (protocol version below 3)
LegacySeries ==
  { [metric |-> m, tags |-> HostTags(h), aggregateTags |-> <<>>]
      : m \in {"cpu"}, h \in {S_b, S_c} }

\* rows of a batch answer with showQuery: each echoes the index of its sub-query
V3Series(qs) ==
  { [metric |-> qs[i + 1].metric, tags |-> HostTags(S_b), aggregateTags |-> <<>>,
     query |-> [index |-> i]]
      : i \in 0..(Len(qs) - 1) }

\* every row gets its own datapoints: timestamp text "1", a value naming the row
WithDps(req, rows) ==
  [j \in 1..Len(rows) |-> rows[j] @@ [dps |-> <<[k |-> 1, v |-> 10 * req + j]>>]]

\* the executor reads only the metric name and the datapoints of a row
GoSeries == { [metric |-> "cpu", tags |-> HostTags(S_b)] }

BatchAnswers ==
  IF tsdbVersion = 3 THEN SeqsUpTo(V3Series(queries), MaxSeries)
  ELSE SeqsUpTo(LegacySeries, MaxSeries)

GexpAnswers == { [j \in 1..n |-> [tags |-> HostTags(S_b)]] : n \in 0..MaxRows }

\* rows of a batch answer that differ in metric, tag keys and aggregate tags
RichSeries ==
  { [metric |-> m, tags |-> t, aggregateTags |-> a]
      : m \in {"cpu", "mem"},
        t \in {HostTags(S_b), [host |-> S_b, dc |-> S_c]},
        a \in {<<>>, <<"rack">>} }

RichAnswers == SeqsUpTo(RichSeries, MaxSeries)

\* response.config.url of expression request id: the URL of the request
EchoedUrl ==
  [id \in 1..Len(gExpressions) |-> {sent[id + (IF Len(queries) > 0 THEN 1 ELSE 0)].url}]

\* response.config.url as an intermediary may hand it back: the URL of the
\* request, one without the index, one with an index past the gexp targets
AnyUrl ==
  [id \in 1..Len(gExpressions) |->
     EchoedUrl[id]
       \cup {<<"/api/query/gexp">>,
             <<"/api/query/gexp", "?start=", "1", "0", "0", "&exp=", "g", "&gexpIndex=", "9">>}]

---------------------------------------------------------------------------
(* TypeScript: Response Reconciler and Series Transformer *)

\* _.findIndex: 0-based index of the first element satisfying Test, or -1
FindIndex(arr, Test(_)) ==
  IF \E i \in 1..Len(arr) : Test(arr[i])
  THEN (CHOOSE i \in 1..Len(arr) : Test(arr[i]) /\ \A h \in 1..(i - 1) : ~Test(arr[h])) - 1
  ELSE -1

\* options.targets: undefined (an empty collection to lodash) unless the object has it
TargetsOf(o) == IF o.kind = "request" THEN o.targets ELSE <<>>

tagsMatch(target, metricData) ==
  \A tagK \in DOMAIN target.tags :
    LET interpolatedTagValue == TemplateReplace(target.tags[tagK])
        arrTagV == Split(interpolatedTagValue, "|")
    IN \/ /\ tagK \in DOMAIN metricData.tags
          /\ \E i \in 1..Len(arrTagV) : arrTagV[i] = metricData.tags[tagK]
       \/ interpolatedTagValue = S_star

mapMetricsToTargets(metrics, targetsArg, optionsArg, version) ==
  [i \in 1..Len(metrics) |->
     IF version = 3
     THEN metrics[i].query.index
     ELSE FindIndex(TargetsOf(optionsArg),
            LAMBDA target :
              IF Len(target.filters) > 0
              THEN target.metric = metrics[i].metric
              ELSE target.metric = metrics[i].metric /\ tagsMatch(target, metrics[i]))]

getDatapointsAtCorrectResolution(row, resolution) ==
  [j \in 1..Len(row.dps) |->
     <<row.dps[j].v, IF resolution = 2 THEN row.dps[j].k * 1 ELSE row.dps[j].k * 1000>>]

TagKeyOrder == <<"host", "dc">>
ObjectKeys(obj) == SelectSeq(TagKeyOrder, LAMBDA k : k \in DOMAIN obj)

createMetricLabel(md, target, gbt) ==
  IF target.alias # ""
  THEN TemplateReplace(target.alias)
  ELSE [metric |-> md.metric,
        tagData |-> LET ks == SelectSeq(ObjectKeys(md.tags), LAMBDA k : k \in gbt)
                    IN [i \in 1..Len(ks) |-> <<ks[i], "=", md.tags[ks[i]]>>]]

\* refId records the target the row was transformed with
transformMetricData(md, gbt, target, resolution) ==
  [target |-> createMetricLabel(md, target, gbt),
   datapoints |-> getDatapointsAtCorrectResolution(md, resolution),
   refId |-> target.refId]

createGexpLabel(data, target) ==
  IF target.gexpAlias = "" THEN target.gexp ELSE target.gexpAlias

JsFalse == [kind |-> "false"]

transformGexpData(gExp, target, resolution) ==
  IF target.kind = "undefined"
  THEN JsFalse
  ELSE [kind |-> "object",
        target |-> createGexpLabel(gExp, target),
        datapoints |-> getDatapointsAtCorrectResolution(gExp, resolution),
        refId |-> target.refId]

\* /.+gexpIndex=(\d+).*/
mapGExpToTargets(queryUrl) ==
  LET digitsAt(p) == LeadingDigits(SubSeq(queryUrl, p + 1, Len(queryUrl)))
      ps == {p \in 2..Len(queryUrl) : queryUrl[p] = "&gexpIndex=" /\ digitsAt(p) # <<>>}
  IN IF ps = {} THEN -1
     ELSE DigitsVal(digitsAt(CHOOSE p \in ps : \A q \in ps : q <= p))

\* the keys of the tags alone
tagKeysWithoutAggregateTags(metricData) == ObjectKeys(metricData.tags)

\* the list _saveTagKeys stores: Object.keys(tags) with every aggregate tag pushed
tagKeysOf(metricData) == ObjectKeys(metricData.tags) \o metricData.aggregateTags

\* _saveTagKeys for the rows in order: a later row overwrites an earlier one
RECURSIVE saveTagKeys(_, _)
saveTagKeys(tk, rows) ==
  IF rows = <<>> THEN tk
  ELSE saveTagKeys((Head(rows).metric :> tagKeysOf(Head(rows))) @@ tk, Tail(rows))

\* the index the batch callback uses for row i
batchIndex(response, i) ==
  LET tsqTargets == SelectSeq(targets, LAMBDA t : t.queryType = "metric")
      metricToTargetMapping ==
        mapMetricsToTargets(response.data, Options, Arr(tsqTargets), tsdbVersion)
  IN IF metricToTargetMapping[i] = -1 THEN 0 ELSE metricToTargetMapping[i]

\* rows before which the batch callback throws (no target at the index)
batchThrowsAt(response) ==
  LET tsqTargets == SelectSeq(targets, LAMBDA t : t.queryType = "metric")
  IN {i \in 1..Len(response.data) :
        ArrayGet(tsqTargets, batchIndex(response, i)).kind = "undefined"}

\* the .then() of performTimeSeriesQuery
batchThen(response) ==
  LET tsqTargets == SelectSeq(targets, LAMBDA t : t.queryType = "metric")
  IN IF batchThrowsAt(response) # {}
     THEN Rejected
     ELSE Fulfilled(Arr([i \in 1..Len(response.data) |->
            transformMetricData(response.data[i], groupByTags,
                                ArrayGet(tsqTargets, batchIndex(response, i)),
                                tsdbResolution)]))

\* the .then() of performGExpressionQuery without the typeof target === 'undefined'
\* guard: reading gexpAlias of a missing target throws
gexpThenUnguarded(response) ==
  LET gexpTargets == SelectSeq(targets, LAMBDA t : t.queryType = "gexp")
      gExpTargetIndex == mapGExpToTargets(response.config.url)
      index == IF gExpTargetIndex = -1 THEN 0 ELSE gExpTargetIndex
  IN IF response.data # <<>> /\ ArrayGet(gexpTargets, index).kind = "undefined"
     THEN Rejected
     ELSE Fulfilled(Arr([i \in 1..Len(response.data) |->
            transformGexpData(response.data[i], ArrayGet(gexpTargets, index),
                              tsdbResolution)]))

\* the .then() of performGExpressionQuery
gexpThen(response) ==
  LET gexpTargets == SelectSeq(targets, LAMBDA t : t.queryType = "gexp")
      gExpTargetIndex == mapGExpToTargets(response.config.url)
      index == IF gExpTargetIndex = -1 THEN 0 ELSE gExpTargetIndex
      rows == [i \in 1..Len(response.data) |->
                 transformGexpData(response.data[i], ArrayGet(gexpTargets, index),
                                   tsdbResolution)]
  IN Fulfilled(Arr(SelectSeq(rows, LAMBDA value : value # JsFalse)))

\* the callback of Promise.all(tsdbQueryPromises)
assemble(resps) ==
  LET queriesData == resps[1].value
      first == IF Truthy(queriesData) /\ Len(queriesData.items) > 0
               THEN queriesData.items ELSE <<>>
  IN first \o Flatten([s \in 1..(Len(resps) - 1) |-> resps[s + 1].value.items])

\* a join that waits for every promise and drops the failed ones
joinSettled(resps) ==
  IF \A s \in 1..Len(resps) : resps[s].state # "pending"
  THEN [state |-> "resolved",
        data |-> assemble([s \in 1..Len(resps) |->
                   IF resps[s].state = "rejected" THEN Fulfilled(Arr(<<>>)) ELSE resps[s]])]
  ELSE [state |-> "pending", data |-> <<>>]

\* Promise.all: rejected by the first rejection, resolved once all are fulfilled
join(resps) ==
  IF \E s \in 1..Len(resps) : resps[s].state = "rejected"
  THEN [state |-> "rejected", data |-> <<>>]
  ELSE IF \A s \in 1..Len(resps) : resps[s].state = "fulfilled"
       THEN [state |-> "resolved", data |-> assemble(resps)]
       ELSE [state |-> "pending", data |-> <<>>]

\* the request with id 0 (batch) or k (expression with gexpIndex k-1)
requestOf(id) == IF id = 0 THEN sent[1] ELSE sent[id + (IF Len(queries) > 0 THEN 1 ELSE 0)]

Settle(id, resp, promise) ==
  LET resps == [responses EXCEPT ![IF id = 0 THEN 1 ELSE promiseSlot(id - 1)] = promise]
  IN /\ inflight' = inflight \ {id}
     /\ received' = (id :> resp) @@ received
     /\ arrival' = Append(arrival, id)
     /\ responses' = resps
     /\ result' = IF result.state = "pending" THEN join(resps) ELSE result
     /\ pc' = IF inflight \ {id} = {} THEN "done" ELSE pc

BatchRespondWith(answers) ==
  /\ impl = "ts" /\ pc = "wait" /\ 0 \in inflight
  /\ \E rows \in answers :
       LET resp == [ok |-> TRUE, data |-> WithDps(0, rows), config |-> [url |-> requestOf(0).url]]
       IN /\ Settle(0, resp, batchThen(resp))
          /\ tagKeys' = saveTagKeys(tagKeys,
               SubSeq(resp.data, 1,
                      IF batchThrowsAt(resp) = {} THEN Len(resp.data)
                      ELSE CHOOSE i \in batchThrowsAt(resp) :
                             \A h \in batchThrowsAt(resp) : i <= h))
  /\ UNCHANGED <<impl, tsdbVersion, targets, interval, rangeRaw, queries, gExpressions,
                 groupByTags, origin, sent, metricQueries, gexpQueries, queryResult,
                 suggestion, aggregatorsPromise, filterTypesPromise, lookups, returned>>

BatchRespond == BatchRespondWith(BatchAnswers)

BatchRespondRich == BatchRespondWith(RichAnswers)

BatchFail ==
  /\ impl = "ts" /\ pc = "wait" /\ 0 \in inflight
  /\ Settle(0, [ok |-> FALSE, data |-> <<>>, config |-> [url |-> requestOf(0).url]], Rejected)
  /\ UNCHANGED <<impl, tsdbVersion, targets, interval, rangeRaw, queries, gExpressions,
                 groupByTags, origin, sent, tagKeys, metricQueries, gexpQueries,
                 queryResult,
                 suggestion, aggregatorsPromise, filterTypesPromise, lookups, returned>>

GexpRespondWith(urls) ==
  /\ impl = "ts" /\ pc = "wait"
  /\ \E id \in inflight \ {0} : \E rows \in GexpAnswers : \E url \in urls[id] :
       LET resp == [ok |-> TRUE, data |-> WithDps(id, rows), config |-> [url |-> url]]
       IN Settle(id, resp, gexpThen(resp))
  /\ UNCHANGED <<impl, tsdbVersion, targets, interval, rangeRaw, queries, gExpressions,
                 groupByTags, origin, sent, tagKeys, metricQueries, gexpQueries,
                 queryResult,
                 suggestion, aggregatorsPromise, filterTypesPromise, lookups, returned>>

GexpRespond == GexpRespondWith(EchoedUrl)

GexpRespondAnyUrl == GexpRespondWith(AnyUrl)

GexpFail ==
  /\ impl = "ts" /\ pc = "wait"
  /\ \E id \in inflight \ {0} :
       Settle(id, [ok |-> FALSE, data |-> <<>>, config |-> [url |-> requestOf(id).url]], Rejected)
  /\ UNCHANGED <<impl, tsdbVersion, targets, interval, rangeRaw, queries, gExpressions,
                 groupByTags, origin, sent, tagKeys, metricQueries, gexpQueries,
                 queryResult,
                 suggestion, aggregatorsPromise, filterTypesPromise, lookups, returned>>

---------------------------------------------------------------------------
(* Go: OpenTsdbExecutor.Query *)

\* TimeRange.GetFromAsMsEpoch / GetToAsMsEpoch: "now" is the clock's reading
NowMs == 300
MsEpoch(date) == IF date.kind = "date" THEN date.ms ELSE NowMs

recognised(t) == t.queryType \in {"", "metric", "gexp"}
isMetricQuery(t) == t.queryType = "" \/ t.queryType = "metric"

\* number of expression requests already made
gexpDone == Cardinality({i \in 1..Len(sent) : sent[i].method = "GET"})

\* the loop over queryContext.Queries
GoQuery ==
  /\ impl = "go"
  /\ pc = "start"
  /\ IF \E i \in 1..Len(targets) : ~recognised(targets[i])
     THEN /\ result' = [state |-> "rejected", data |-> <<>>]
          /\ pc' = "done"
          /\ UNCHANGED <<metricQueries, gexpQueries, origin>>
     ELSE LET ms == SelectSeq(targets, isMetricQuery)
              gs == SelectSeq(targets, LAMBDA t : t.queryType = "gexp")
              start == MsEpoch(rangeRaw.from)
              end == MsEpoch(rangeRaw.to)
          IN /\ metricQueries' = [i \in 1..Len(ms) |-> buildMetric(ms[i])]
             /\ gexpQueries' = [i \in 1..Len(gs) |-> buildGexp(gs[i], start, end)]
             /\ origin' = [metric |-> [i \in 1..Len(ms) |-> ms[i].refId],
                           gexp |-> [i \in 1..Len(gs) |-> gs[i].refId]]
             /\ result' = [state |-> "pending", data |-> <<>>]
             /\ pc' = "metrics"
  /\ UNCHANGED <<impl, tsdbVersion, targets, interval, rangeRaw, queries, gExpressions,
                 groupByTags, sent, inflight, received, arrival, responses, tagKeys,
                 queryResult,
                 suggestion, aggregatorsPromise, filterTypesPromise, lookups, returned>>

\* parseResponse: one TimeSeries per row, appended to the result
parseResponse(data) ==
  [j \in 1..Len(data) |-> [Name |-> Prop(data[j], "metric"), Points |-> data[j].dps]]

\* a blocking request: either it fails and Query returns the error, or its rows are appended
GoRequest(id, req, answers, nextPc) ==
  /\ sent' = Append(sent, req)
  /\ arrival' = Append(arrival, id)
  /\ \/ /\ received' = (id :> [ok |-> FALSE, data |-> <<>>]) @@ received
        /\ result' = [state |-> "rejected", data |-> <<>>]
        /\ pc' = "done"
        /\ UNCHANGED queryResult
     \/ \E rows \in answers :
          /\ received' = (id :> [ok |-> TRUE, data |-> WithDps(id, rows)]) @@ received
          /\ queryResult' = [Series |-> queryResult.Series \o parseResponse(WithDps(id, rows))]
          /\ pc' = nextPc
          /\ UNCHANGED result

metricsRequest ==
  /\ impl = "go"
  /\ pc = "metrics"
  /\ IF Len(metricQueries) = 0
     THEN /\ pc' = "gexp"
          /\ UNCHANGED <<sent, received, arrival, result, queryResult>>
     ELSE GoRequest(0,
            [method |-> "POST", url |-> <<"api/query">>,
             data |-> [start |-> MsEpoch(rangeRaw.from), end |-> MsEpoch(rangeRaw.to),
                       queries |-> metricQueries]],
            SeqsUpTo(GoSeries, MaxSeries), "gexp")
  /\ UNCHANGED <<impl, tsdbVersion, targets, interval, rangeRaw, queries, gExpressions,
                 groupByTags, origin, inflight, responses, tagKeys, metricQueries,
                 gexpQueries,
                 suggestion, aggregatorsPromise, filterTypesPromise, lookups, returned>>

gexpRequest ==
  /\ impl = "go"
  /\ pc = "gexp"
  /\ gexpDone < Len(gexpQueries)
  /\ GoRequest(gexpDone + 1,
       [method |-> "GET", url |-> <<"api/query/gexp", "?">> \o gexpQueries[gexpDone + 1]],
       GexpAnswers, "gexp")
  /\ UNCHANGED <<impl, tsdbVersion, targets, interval, rangeRaw, queries, gExpressions,
                 groupByTags, origin, inflight, responses, tagKeys, metricQueries,
                 gexpQueries,
                 suggestion, aggregatorsPromise, filterTypesPromise, lookups, returned>>

\* result.Results["A"] = queryResult
GoReturn ==
  /\ impl = "go"
  /\ pc = "gexp"
  /\ gexpDone = Len(gexpQueries)
  /\ result' = [state |-> "resolved", data |-> queryResult.Series]
  /\ pc' = "done"
  /\ UNCHANGED <<impl, tsdbVersion, targets, interval, rangeRaw, queries, gExpressions,
                 groupByTags, origin, sent, inflight, received, arrival, responses,
                 tagKeys, metricQueries, gexpQueries, queryResult,
                 suggestion, aggregatorsPromise, filterTypesPromise, lookups, returned>>

---------------------------------------------------------------------------
(* TypeScript: auto-complete *)

\* this.tagKeys[metric] || []
suggestTagKeys(metric) == IF metric \in DOMAIN tagKeys THEN tagKeys[metric] ELSE <<>>

SuggestTagKeys ==
  /\ impl = "ts"
  /\ \E metric \in {"cpu", "mem", "disk"} :
       suggestion' = [metric |-> metric, keys |-> suggestTagKeys(metric)]
  /\ UNCHANGED <<impl, tsdbVersion, targets, interval, rangeRaw, pc, queries, gExpressions,
                 groupByTags, origin, sent, inflight, received, arrival, responses, result,
                 tagKeys, metricQueries, gexpQueries, queryResult,
                 aggregatorsPromise, filterTypesPromise, lookups, returned>>

---------------------------------------------------------------------------
(* TypeScript: getAggregators / getFilterTypes *)

\* Array.prototype.sort() on names without duplicates: the names of the model in
\* the order of their code units
NameOrder == <<"avg", "literal_or", "sum", "wildcard">>
Sort(names) ==
  SelectSeq(NameOrder, LAMBDA n : \E i \in 1..Len(names) : names[i] = n)

\* a JavaScript object with its keys in insertion order
Obj(keys) == [kind |-> "object", keys |-> keys]

\* the promise of the k-th discovery request
PromiseOf(k, state, value) == [kind |-> "promise", id |-> k, state |-> state, value |-> value]

\* if (this.aggregatorsPromise) with a retry once the promise is rejected
memoisedUnlessRejected(promise) == Truthy(promise) /\ promise.state # "rejected"

\* if (this.aggregatorsPromise) / if (this.filterTypesPromise)
memoised(promise) == Truthy(promise)

\* what /api/aggregators and /api/config/filters may answer in result.data
AggregatorsData == {JsUndefined, Arr(<<"sum", "avg">>), Arr(<<"avg", "sum">>), Obj(<<"sum">>)}
FilterTypesData == {JsUndefined, Obj(<<"wildcard", "literal_or">>), Obj(<<>>)}

\* a call: either the memoised promise, or a request and the promise of its answer
Discover(fn, url, promise, promiseAfter) ==
  /\ impl = "ts"
  /\ Len(returned) < MaxCalls
  /\ IF memoised(promise)
     THEN /\ returned' = Append(returned, [fn |-> fn, promise |-> promise.id,
                                           state |-> promise.state])
          /\ promiseAfter = promise
          /\ UNCHANGED lookups
     ELSE /\ lookups' = Append(lookups, [method |-> "GET", url |-> url])
          /\ promiseAfter = PromiseOf(Len(lookups) + 1, "pending", JsUndefined)
          /\ returned' = Append(returned, [fn |-> fn, promise |-> Len(lookups) + 1,
                                           state |-> "pending"])

getAggregators ==
  /\ Discover("getAggregators", "/api/aggregators", aggregatorsPromise, aggregatorsPromise')
  /\ UNCHANGED <<evaluation, suggestion, filterTypesPromise>>

getFilterTypes ==
  /\ Discover("getFilterTypes", "/api/config/filters", filterTypesPromise, filterTypesPromise')
  /\ UNCHANGED <<evaluation, suggestion, aggregatorsPromise>>

\* the request of getAggregators is answered or fails
AggregatorsSettle ==
  /\ Truthy(aggregatorsPromise) /\ aggregatorsPromise.state = "pending"
  /\ \/ \E data \in AggregatorsData :
          aggregatorsPromise' =
            [aggregatorsPromise EXCEPT
               !.state = "fulfilled",
               !.value = IF Truthy(data) /\ data.kind = "array"
                         THEN Arr(Sort(data.items)) ELSE Arr(<<>>)]
     \/ aggregatorsPromise' = [aggregatorsPromise EXCEPT !.state = "rejected"]
  /\ UNCHANGED <<evaluation, suggestion, filterTypesPromise, lookups, returned>>

\* the request of getFilterTypes is answered or fails
FilterTypesSettle ==
  /\ Truthy(filterTypesPromise) /\ filterTypesPromise.state = "pending"
  /\ \/ \E data \in FilterTypesData :
          filterTypesPromise' =
            [filterTypesPromise EXCEPT
               !.state = "fulfilled",
               !.value = IF Truthy(data) THEN Arr(Sort(data.keys)) ELSE Arr(<<>>)]
     \/ filterTypesPromise' = [filterTypesPromise EXCEPT !.state = "rejected"]
  /\ UNCHANGED <<evaluation, suggestion, aggregatorsPromise, lookups, returned>>

\* a datasource instance used by the query editor only
InitDiscovery ==
  /\ impl = "ts"
  /\ tsdbVersion = 1
  /\ targets = <<>>
  /\ interval = S_1m
  /\ rangeRaw = [from |-> DateAt(100), to |-> DateAt(200)]
  /\ InitCommon

NextDiscovery == getAggregators \/ getFilterTypes \/ AggregatorsSettle \/ FilterTypesSettle

SpecDiscovery == InitDiscovery /\ [][NextDiscovery]_vars

Next ==
  \/ Query \/ BatchRespond \/ BatchFail \/ GexpRespond \/ GexpFail
  \/ GoQuery \/ metricsRequest \/ gexpRequest \/ GoReturn

Spec == Init /\ [][Next]_vars

\* the front end reconciling answers whose rows and echoed URL vary, with
\* auto-complete reading the tag-key cache in between
NextReconcile ==
  \/ Query \/ BatchRespondRich \/ BatchFail \/ GexpRespondAnyUrl \/ GexpFail
  \/ SuggestTagKeys

SpecReconcile == InitReconcile /\ [][NextReconcile]_vars
---------------------------------------------------------------------------
(* Vocabulary of the properties *)

isTs == impl = "ts"

\* the target is hidden, or its metric (metric target) or gexp (gexp target) is empty
hiddenOrEmpty(t) ==
  \/ t.hide
  \/ t.queryType \in {"", "metric"} /\ t.metric = ""
  \/ t.queryType = "gexp" /\ t.gexp = ""

targetOf(refId) == targets[refId + 1]

\* the metric sub-queries that were built, in the order of the batch
builtQueries == IF isTs THEN queries ELSE metricQueries

answered(id) == id \in DOMAIN received
succeeded(id) == answered(id) /\ received[id].ok

\* ids of the requests in the order they were issued: 0 the batch, k the k-th expression
sentIds ==
  [i \in 1..Len(sent) |-> IF sent[1].method = "POST" THEN i - 1 ELSE i]

\* the value that names a row of an answer, and the one a returned series carries
rawValue(row) == row.dps[1].v
seriesValue(row) == IF isTs THEN row.datapoints[1][1] ELSE row.Points[1].v

\* C1: with protocol version 3 every series of the batch answer is transformed with
\* the target that produced the sub-query at the series' echoed index
C1_IndexExact ==
  (isTs /\ tsdbVersion = 3 /\ succeeded(0) /\ responses[1].state = "fulfilled")
    => \A i \in 1..Len(received[0].data) :
         responses[1].value.items[i].refId
           = origin.metric[received[0].data[i].query.index + 1]

\* does the metric target t match the series md under the legacy rule
legacyMatch(t, md) ==
  /\ t.metric = md.metric
  /\ \/ Len(t.filters) > 0
     \/ \A k \in DOMAIN t.tags :
          \/ t.tags[k] = S_star
          \/ k \in DOMAIN md.tags
             /\ \E j \in 1..Len(Split(t.tags[k], "|")) : Split(t.tags[k], "|")[j] = md.tags[k]

\* the metric target the legacy rule attributes md to: the first match, else target 0
legacyTarget(md) ==
  LET ms == SelectSeq(targets, LAMBDA t : t.queryType = "metric")
  IN IF \E i \in 1..Len(ms) : legacyMatch(ms[i], md)
     THEN ms[CHOOSE i \in 1..Len(ms) :
               legacyMatch(ms[i], md) /\ \A h \in 1..(i - 1) : ~legacyMatch(ms[h], md)]
     ELSE ms[1]

\* C2: below protocol version 3 every series of the batch answer is attributed to the
\* first metric target that matches it by metric and tags, and to target 0 only when
\* none matches
C2_LegacyFirstMatch ==
  (isTs /\ tsdbVersion < 3 /\ succeeded(0) /\ responses[1].state = "fulfilled")
    => \A i \in 1..Len(received[0].data) :
         responses[1].value.items[i].refId = legacyTarget(received[0].data[i]).refId

\* C3: every row of an expression answer is transformed with the gexp target whose
\* expression that request carried
C3_GexpCorrelation ==
  isTs =>
    \A id \in DOMAIN received :
      (id # 0 /\ received[id].ok) =>
        LET rows == responses[promiseSlot(id - 1)].value.items
        IN /\ Len(rows) = Len(received[id].data)
           /\ \A j \in 1..Len(rows) : rows[j].refId = origin.gexp[id]

\* C4: the returned list is the batch answer's series in answer order followed by the
\* rows of the expression answers in gexpIndex order, whatever the order of completion
C4_OrderIndependent ==
  result.state = "resolved" =>
    [i \in 1..Len(result.data) |-> seriesValue(result.data[i])]
      = Flatten([i \in 1..Len(sent) |->
                   [j \in 1..Len(received[sentIds[i]].data) |->
                      rawValue(received[sentIds[i]].data[j])]])

\* a front-end evaluation of three requests, each answered with rows, that completed
\* in another order than they were issued
C4_Witness ==
  /\ isTs
  /\ result.state = "resolved"
  /\ Len(sent) >= 3
  /\ \E i \in 1..(Len(arrival) - 1) : arrival[i] > arrival[i + 1]
  /\ \A id \in DOMAIN received : Len(received[id].data) > 0

\* C5: one failed sub-request fails the evaluation and no series list is returned; a
\* list is returned only when every issued sub-request succeeded
C5_AllOrNothing ==
  /\ (\E id \in DOMAIN received : ~received[id].ok)
       => result.state = "rejected" /\ result.data = <<>>
  /\ result.state = "resolved"
       => \A i \in 1..Len(sent) : succeeded(sentIds[i])

\* one sub-request answered with rows, another failed, the evaluation failed
C5_Witness ==
  /\ \E id \in DOMAIN received : received[id].ok /\ Len(received[id].data) > 0
  /\ \E id \in DOMAIN received : ~received[id].ok
  /\ result.state = "rejected"

\* C6: when every target is hidden or empty (or there is no target) no request is
\* issued and the evaluation returns an empty list
C6_NoRequestWhenNothingVisible ==
  (\A i \in 1..Len(targets) : hiddenOrEmpty(targets[i]))
    => /\ sent = <<>>
       /\ pc = "done" => result = [state |-> "resolved", data |-> <<>>]

\* C7: no sub-query of a batch request and no expression request comes from a target
\* that is hidden or empty
C7_BuilderNeverSeesHidden ==
  \A i \in 1..Len(sent) :
    IF sent[i].method = "POST"
    THEN \A k \in 1..Len(sent[i].data.queries) : ~hiddenOrEmpty(targetOf(origin.metric[k]))
    ELSE ~hiddenOrEmpty(targetOf(origin.gexp[sentIds[i]]))

\* the option was supplied: the key is present and, for a text, not empty
supplied(v) == v.kind # "undefined" /\ (v.kind = "string" => Len(v.s) > 0)
nonZero(v) ==
  /\ supplied(v)
  /\ IF v.kind = "string" THEN Truthy(parseInt(v.s)) ELSE v.n # 0

\* C8: with rate enabled, dropResets is true exactly when neither counterMax nor a
\* non-zero counterResetValue was supplied (for the front end: under a protocol
\* version that has the dropResets option, 2 or later)
C8_DropResets ==
  \A k \in 1..Len(builtQueries) :
    LET t == targetOf(origin.metric[k])
        q == builtQueries[k]
    IN (t.shouldComputeRate /\ (isTs => tsdbVersion >= 2)) =>
         (("dropResets" \in DOMAIN q.rateOptions /\ q.rateOptions.dropResets)
            <=> (~supplied(t.counterMax) /\ ~nonZero(t.counterResetValue)))

\* C9: with downsampling disabled the built query has no downsample field; with it
\* enabled and a blank interval the field starts with "1m-"
C9_Downsample ==
  \A k \in 1..Len(builtQueries) :
    LET t == targetOf(origin.metric[k])
        q == builtQueries[k]
    IN /\ t.disableDownsampling => "downsample" \notin DOMAIN q
       /\ (~t.disableDownsampling /\ t.downsampleInterval = <<>>)
            => /\ "downsample" \in DOMAIN q
               /\ Len(q.downsample) >= 3
               /\ SubSeq(q.downsample, 1, 3) = <<"1", "m", "-">>

\* C10: a built metric query carries the filters and no tags when the target has
\* filters, and otherwise the tags (if any) and no filters; never both
C10_TagsXorFilters ==
  \A k \in 1..Len(builtQueries) :
    LET t == targetOf(origin.metric[k])
        q == builtQueries[k]
    IN /\ ~("filters" \in DOMAIN q /\ "tags" \in DOMAIN q)
       /\ Len(t.filters) > 0 => ("filters" \in DOMAIN q /\ "tags" \notin DOMAIN q)
       /\ Len(t.filters) = 0
            => /\ "filters" \notin DOMAIN q
               /\ DOMAIN t.tags # {} => ("tags" \in DOMAIN q /\ q.tags = t.tags)

\* the end of the panel's window: absent for the front end when the range ends at
\* 'now'; the executor's TimeRange always resolves to an instant
windowHasEnd == isTs => rangeRaw.to.kind = "date"
windowEnd == IF rangeRaw.to.kind = "date" THEN rangeRaw.to.ms ELSE NowMs

\* the end parameter of a query string, or <<>> when it has none
endParam(url) ==
  IF \E p \in 1..Len(url) : url[p] = "&end="
  THEN LeadingDigits(SubSeq(url, (CHOOSE p \in 1..Len(url) : url[p] = "&end=") + 1, Len(url)))
  ELSE <<>>

\* C11: when the window has an end, the body of the batch request and the URL of
\* every expression request carry that end; when it has none, none of them
\* carries an end
C11_WindowConsistent ==
  \A i \in 1..Len(sent) :
    IF sent[i].method = "POST"
    THEN IF windowHasEnd
         THEN /\ "end" \in DOMAIN sent[i].data
              /\ sent[i].data.end = (IF isTs THEN JsNum(windowEnd) ELSE windowEnd)
         ELSE "end" \notin DOMAIN sent[i].data
    ELSE IF windowHasEnd
         THEN endParam(sent[i].url) = IntToStr(windowEnd)
         ELSE \A p \in 1..Len(sent[i].url) : sent[i].url[p] # "&end="

\* the gexp targets of the panel, hidden ones included, in declaration order
gexpTargetsOfPanel == SelectSeq(targets, LAMBDA t : t.queryType = "gexp")

\* the URL handed back with an answer names an index / the index it names
namesIndex(url) == \E p \in 1..Len(url) : url[p] = "&gexpIndex="
indexNamed(url) ==
  DigitsVal(SubSeq(url, (CHOOSE p \in 1..Len(url) : url[p] = "&gexpIndex=") + 1, Len(url)))

\* the index names no gexp target
pastTargets(url) == namesIndex(url) /\ indexNamed(url) >= Len(gexpTargetsOfPanel)

\* the rows of answer id that the evaluation returns
keptValues(id) ==
  IF id # 0 /\ pastTargets(received[id].config.url) THEN <<>>
  ELSE [j \in 1..Len(received[id].data) |-> rawValue(received[id].data[j])]

\* C12: an expression answer whose URL names no index has its rows attributed to
\* gexp target 0; one whose index names no gexp target has its rows dropped; in
\* both cases its promise is fulfilled, and once every request has succeeded the
\* evaluation resolves with the rows that were not dropped
C12_BadIndexHandled ==
  isTs =>
    /\ \A id \in DOMAIN received :
         (id # 0 /\ received[id].ok) =>
           LET url == received[id].config.url
               slot == responses[promiseSlot(id - 1)]
           IN /\ slot.state = "fulfilled"
              /\ ~namesIndex(url) =>
                   /\ Len(slot.value.items) = Len(received[id].data)
                   /\ \A j \in 1..Len(slot.value.items) :
                        /\ slot.value.items[j].refId = gexpTargetsOfPanel[1].refId
                        /\ seriesValue(slot.value.items[j]) = rawValue(received[id].data[j])
              /\ pastTargets(url) => slot.value.items = <<>>
    /\ (pc = "done" /\ sent # <<>> /\ \A id \in DOMAIN received : received[id].ok) =>
         /\ result.state = "resolved"
         /\ [i \in 1..Len(result.data) |-> seriesValue(result.data[i])]
              = Flatten([i \in 1..Len(sent) |-> keptValues(sentIds[i])])

\* two expression answers with rows: the first names an index past the gexp
\* targets, the second (gexpIndex 1) names none; the evaluation resolved with the
\* rows of the second only
C12_Witness ==
  /\ isTs
  /\ result.state = "resolved"
  /\ Len(gexpTargetsOfPanel) = 2
  /\ {1, 2} \subseteq DOMAIN received
  /\ pastTargets(received[1].config.url) /\ received[1].data # <<>>
  /\ ~namesIndex(received[2].config.url) /\ received[2].data # <<>>
  /\ Len(result.data) = Len(received[2].data)

\* the downsample string of the k-th expression query of the executor: the text
\* between "&downsampleFillPolicy=" and "&exp="
gexpDownsample(k) ==
  LET qs == gexpQueries[k]
      from == CHOOSE p \in 1..Len(qs) : qs[p] = "&downsampleFillPolicy="
      to == CHOOSE p \in 1..Len(qs) : qs[p] = "&exp="
  IN SubSeq(qs, from + 1, to - 1)

\* ds is interval-aggregator for a target without fill policy (unset or 'none'),
\* and interval-aggregator-fillPolicy for a target with one
wellFormedDownsample(ds, t) ==
  LET parts == Split(ds, "-")
  IN /\ ds # <<>> /\ ds[Len(ds)] # "-"
     /\ parts[1] # <<>>
     /\ IF t.downsampleFillPolicy \in {<<>>, S_none}
        THEN parts = <<parts[1], t.downsampleAggregator>>
        ELSE parts = <<parts[1], t.downsampleAggregator, t.downsampleFillPolicy>>

\* C13: with downsampling enabled the downsample string of a built metric query,
\* and of an expression query of the executor, is interval-aggregator when the
\* fill policy is 'none' or not set and interval-aggregator-fillPolicy otherwise;
\* it never ends with '-'
C13_DownsampleString ==
  /\ \A k \in 1..Len(builtQueries) :
       LET t == targetOf(origin.metric[k])
       IN ~t.disableDownsampling =>
            /\ "downsample" \in DOMAIN builtQueries[k]
            /\ wellFormedDownsample(builtQueries[k].downsample, t)
  /\ \A k \in 1..Len(gexpQueries) :
       LET t == targetOf(origin.gexp[k])
       IN ~t.disableDownsampling => wellFormedDownsample(gexpDownsample(k), t)

\* the tag keys of a row followed by its aggregate tags
keysAndAggregateTags(row) ==
  (IF "host" \in DOMAIN row.tags THEN <<"host">> ELSE <<>>)
    \o (IF "dc" \in DOMAIN row.tags THEN <<"dc">> ELSE <<>>)
    \o row.aggregateTags

\* the last row of rows that carries metric m
lastCarrying(rows, m) ==
  rows[CHOOSE i \in 1..Len(rows) :
         rows[i].metric = m /\ \A h \in (i + 1)..Len(rows) : rows[h].metric # m]

\* C14: a step changes the tag-key cache only when it delivers a successful batch
\* answer; after it the entry of every metric of the answer is the tag keys and
\* aggregate tags of the last row carrying the metric and every other entry is as
\* before; suggestTagKeys answers with the entry of the metric, or with an empty
\* list when the cache has none
C14_TagKeyCache ==
  [][ LET batchSucceeds ==
            0 \notin DOMAIN received /\ 0 \in DOMAIN received' /\ received'[0].ok
          rows == received'[0].data
          seen == {rows[i].metric : i \in 1..Len(rows)}
      IN /\ ~batchSucceeds => tagKeys' = tagKeys
         /\ batchSucceeds =>
              /\ DOMAIN tagKeys' = DOMAIN tagKeys \cup seen
              /\ \A m \in DOMAIN tagKeys' :
                   tagKeys'[m] = IF m \in seen
                                 THEN keysAndAggregateTags(lastCarrying(rows, m))
                                 ELSE tagKeys[m]
         /\ suggestion' # suggestion =>
              suggestion'.keys = IF suggestion'.metric \in DOMAIN tagKeys
                                 THEN tagKeys[suggestion'.metric]
                                 ELSE <<>>
    ]_vars

\* a batch answer with two rows of one metric that differ in their keys was
\* saved over a cache that held another metric, an expression answer arrived,
\* and suggestTagKeys answered with the keys of the second row
C14_Witness ==
  /\ isTs
  /\ succeeded(0)
  /\ Len(received[0].data) >= 2
  /\ received[0].data[1].metric = received[0].data[2].metric
  /\ keysAndAggregateTags(received[0].data[1]) # keysAndAggregateTags(received[0].data[2])
  /\ received[0].data[2].aggregateTags # <<>>
  /\ \E id \in DOMAIN received : id # 0 /\ received[id].ok
  /\ "disk" \in DOMAIN tagKeys
  /\ suggestion = [metric |-> received[0].data[2].metric,
                   keys |-> keysAndAggregateTags(received[0].data[2])]

\* the calls of fn, in order, and the requests issued for url
callsOf(fn) == SelectSeq(returned, LAMBDA c : c.fn = fn)
requestsFor(url) == SelectSeq(lookups, LAMBDA r : r.url = url)

\* C15: whatever the calls and whenever the answer or the failure arrives, at most
\* one request goes to /api/aggregators and every getAggregators call returns the
\* same promise; likewise for getFilterTypes and /api/config/filters
C15_OneRequest ==
  /\ Len(requestsFor("/api/aggregators")) <= 1
  /\ Len(requestsFor("/api/config/filters")) <= 1
  /\ \A i, j \in 1..Len(returned) :
       returned[i].fn = returned[j].fn => returned[i].promise = returned[j].promise

\* three getAggregators calls: the one that issued the request, one while the
\* request was pending, one after it had failed
C15_Witness ==
  /\ Len(callsOf("getAggregators")) >= 3
  /\ callsOf("getAggregators")[2].state = "pending"
  /\ callsOf("getAggregators")[3].state = "rejected"
  /\ Len(requestsFor("/api/aggregators")) = 1
====
